---- MODULE Spec2Model ----
(***************************************************************************)
(* watchr: the streaming runner (internal/runner/runner.go) and the        *)
(* viewport state machine (internal/ui/ui.go).                             *)
(*                                                                         *)
(* One execution is modelled at a time: the StreamingResult the viewport   *)
(* points at (m.streamResult) with its goroutines: the run goroutine, the  *)
(* two readPipe goroutines and the child process.  The viewport is the     *)
(* record m, transformed by the handlers of Update.  Text is a sequence of *)
(* one-character strings.                                                  *)
(***************************************************************************)
EXTENDS Integers, Sequences, FiniteSets, TLC

VARIABLES
    m,            \* ui.model: the viewport state
    cfg,          \* ui.Config (fixed after construction)
    quit,         \* tea.Quit was returned
    uiPc,         \* "idle", or "tickDone": inside the streamTickMsg handler, after GetLines
    pendStart,    \* the startStreamMsg of Init() is not delivered yet
    pendStream,   \* number of scheduled streamTickMsg
    pendRefresh,  \* number of scheduled tickMsg (refresh timer)
    retried,      \* history: the reload key started the current run over an error message
    txt,          \* a call of the text functions (sanitizeLine, truncateToWidth, wrapText)
    res,          \* runner.StreamingResult of the current execution
    lineNum,      \* RunStreaming's lineNum (guarded by lineNumMu)
    rd,           \* the two readPipe goroutines: position and the line in hand
    mainPc,       \* position of the goroutine of RunStreaming
    proc,         \* the child process
    ctxCancelled, \* m.ctx is cancelled
    emitted,      \* history: emitted[k] is the content of the line given number k
    prev,         \* the execution that the last startStreaming superseded
    viewShared    \* m.lines and *m.streamResult.Lines have the same backing array

vars == <<m, cfg, quit, uiPc, pendStart, pendStream, pendRefresh, retried, txt,
          res, lineNum, rd, mainPc, proc, ctxCancelled, emitted, prev, viewShared>>

uiVars == <<m, cfg, quit, uiPc, pendStart, pendStream, pendRefresh, retried, txt>>
runVars == <<res, lineNum, rd, mainPc, proc, ctxCancelled, emitted, prev>>

(***************************************************************************)
(* Bounds                                                                  *)
(***************************************************************************)
\* lines one execution emits at most (stdout and stderr together)
MaxEmit == 2
\* characters typed into the filter at most
MaxFilterLen == 1
\* scheduled timers of one kind at most
MaxPending == 2

\* what the child can print on a line, before sanitizeLine
RawLines == { <<"a">>, <<"B", "a">>, <<"a", "\r">> }
\* printable keys typed while in filter mode
FilterRunes == { "B", "b", "r" }
\* terminal heights delivered by WindowSizeMsg
Heights == { 6, 8 }
\* exit statuses of the child
ExitCodes == { 0, 1 }
Readers == { "stdout", "stderr" }

NoError == ""

max(a, b) == IF a > b THEN a ELSE b
min(a, b) == IF a < b THEN a ELSE b

\* Go's integer division truncates toward zero
GoDiv(a, b) == IF a >= 0 THEN a \div b ELSE -((-a) \div b)

(***************************************************************************)
(* runner.go: sanitizeLine                                                 *)
(***************************************************************************)
RECURSIVE ReplaceAll(_, _, _)
ReplaceAll(s, old, new) ==
    IF s = <<>> THEN <<>>
    ELSE (IF Head(s) = old THEN new ELSE <<Head(s)>>) \o ReplaceAll(Tail(s), old, new)

TabSpaces == <<" ", " ", " ", " ", " ", " ", " ", " ">>

\* variant: tabs are kept
sanitizeLineKeepsTabs(s) == ReplaceAll(s, "\r", <<>>)

sanitizeLine(s) == ReplaceAll(ReplaceAll(s, "\r", <<>>), "\t", TabSpaces)

Line(n, c) == [Number |-> n, Content |-> c]

\* no call of a text function is in progress
NoCall ==
    [pc |-> "none", lib |-> "none", text |-> <<>>, width |-> 0,
     out |-> <<>>, again |-> <<>>, lines |-> <<>>]

(***************************************************************************)
(* runner.go: Run, the one-shot execution: the lines of stdout, then those *)
(* of stderr, then the exit status of the child p                          *)
(***************************************************************************)
NoResult == [Lines |-> <<>>, ExitCode |-> 0]

Run(spawnError, outs, errs, p) ==
    IF spawnError # NoError THEN [Result |-> NoResult, Error |-> spawnError]
    ELSE LET all == outs \o errs
         IN  [Result |-> [Lines |-> [i \in 1..Len(all) |-> Line(i, sanitizeLine(all[i]))],
                          ExitCode |-> IF p.st = "killed" THEN -1 ELSE p.code],
              Error |-> NoError]

(***************************************************************************)
(* ui.go: truncateToWidth and wrapText, over lipgloss.Width.  A text is a  *)
(* sequence of code points; "W" stands for a code point two columns wide,  *)
(* "^[" for ESC and "..." for the one-column ellipsis U+2026.              *)
(***************************************************************************)
ESC == "^["

ellipsis == "..."

\* the letters of the alphabet: a letter ends an escape sequence
Letters == { "a", "e", "h", "l", "m", "o" }

\* the bytes between ESC and the letter
ParamBytes == { "[", "3", "0" }

\* go-runewidth: control characters have no width
RuneWidth(ch) ==
    CASE ch = "W" -> 2
      [] ch \in {ESC, "\t", "\r"} -> 0
      [] OTHER -> 1

\* lipgloss.Width of a text without line breaks: an escape sequence, from ESC to its
\* letter, has no width.  The library versions differ on a code point that cannot
\* be part of the sequence it follows: "lenient" (reflow's PrintableRuneWidth) goes on
\* skipping up to the next letter, "strict" (an ECMA-48 parser) ends the sequence
\* and counts the code point.
RECURSIVE WidthFrom(_, _, _, _)
WidthFrom(lib, s, i, inEsc) ==
    IF i > Len(s) THEN 0
    ELSE LET ch == s[i]
         IN  IF ch = ESC THEN WidthFrom(lib, s, i + 1, TRUE)
             ELSE IF ~inEsc THEN RuneWidth(ch) + WidthFrom(lib, s, i + 1, FALSE)
             ELSE IF ch \in Letters THEN WidthFrom(lib, s, i + 1, FALSE)
             ELSE IF ch \in ParamBytes \/ lib = "lenient"
                  THEN WidthFrom(lib, s, i + 1, TRUE)
             ELSE RuneWidth(ch) + WidthFrom(lib, s, i + 1, FALSE)

Width(lib, s) == WidthFrom(lib, s, 1, FALSE)

\* the loop of truncateToWidth: the runes kept from s[i..]
RECURSIVE TruncateLoop(_, _, _, _, _)
TruncateLoop(lib, s, i, currentWidth, targetWidth) ==
    IF i > Len(s) THEN <<>>
    ELSE LET runeWidth == Width(lib, <<s[i]>>)
         IN  IF currentWidth + runeWidth > targetWidth THEN <<>>
             ELSE <<s[i]>> \o TruncateLoop(lib, s, i + 1, currentWidth + runeWidth, targetWidth)

\* variant: the loop leaves no room for the ellipsis
truncateToWidthNoRoom(lib, s, maxWidth) ==
    IF maxWidth <= 0 THEN <<>>
    ELSE IF Width(lib, s) <= maxWidth THEN s
    ELSE TruncateLoop(lib, s, 1, 0, maxWidth) \o <<ellipsis>>

truncateToWidth(lib, s, maxWidth) ==
    IF maxWidth <= 0 THEN <<>>
    ELSE IF Width(lib, s) <= maxWidth THEN s
    ELSE IF maxWidth - 1 <= 0 THEN <<ellipsis>>
    ELSE TruncateLoop(lib, s, 1, 0, maxWidth - 1) \o <<ellipsis>>

\* the loop of wrapText over s[i..]: the finished lines and the line in progress
RECURSIVE WrapLoop(_, _, _, _, _, _, _)
WrapLoop(lib, s, i, lines, currentLine, currentWidth, width) ==
    IF i > Len(s) THEN [lines |-> lines, currentLine |-> currentLine]
    ELSE LET runeWidth == Width(lib, <<s[i]>>)
         IN  IF currentWidth + runeWidth > width
             THEN WrapLoop(lib, s, i + 1, Append(lines, currentLine), <<s[i]>>,
                           runeWidth, width)
             ELSE WrapLoop(lib, s, i + 1, lines, Append(currentLine, s[i]),
                           currentWidth + runeWidth, width)

\* variant: the line in progress at the end of the text is forgotten
wrapTextDropsLast(lib, s, width) ==
    IF width <= 0 THEN <<>>
    ELSE IF s = <<>> THEN << <<>> >>
    ELSE WrapLoop(lib, s, 1, <<>>, <<>>, 0, width).lines

wrapText(lib, s, width) ==
    IF width <= 0 THEN <<>>
    ELSE IF s = <<>> THEN << <<>> >>
    ELSE LET r == WrapLoop(lib, s, 1, <<>>, <<>>, 0, width)
         IN  IF r.currentLine # <<>> THEN Append(r.lines, r.currentLine) ELSE r.lines

(***************************************************************************)
(* ui.go: layout geometry                                                  *)
(***************************************************************************)
\* variant: a percentage is always taken of the width
previewSizeOfWidth(mm, c) ==
    IF c.PreviewSizeIsPercent THEN GoDiv(mm.width * c.PreviewSize, 100) ELSE c.PreviewSize

previewSize(mm, c) ==
    IF c.PreviewSizeIsPercent
    THEN IF c.PreviewPosition \in {"left", "right"}
         THEN GoDiv(mm.width * c.PreviewSize, 100)
         ELSE GoDiv(mm.height * c.PreviewSize, 100)
    ELSE c.PreviewSize

fixedLines == 5

visibleLines(mm, c) ==
    IF mm.showPreview /\ c.PreviewPosition \in {"top", "bottom"}
    THEN mm.height - fixedLines - previewSize(mm, c) - 1
    ELSE mm.height - fixedLines

(***************************************************************************)
(* ui.go: updateFiltered, moveCursor, adjustOffset                         *)
(***************************************************************************)
LowerOf(ch) ==
    CASE ch = "A" -> "a"
      [] ch = "B" -> "b"
      [] ch = "R" -> "r"
      [] OTHER -> ch

ToLower(s) == [i \in 1..Len(s) |-> LowerOf(s[i])]

\* strings.Contains
Contains(s, sub) ==
    \E i \in 0..(Len(s) - Len(sub)) : SubSeq(s, i + 1, i + Len(sub)) = sub

\* the loop of updateFiltered over lines[from..]: indices are 0-based, as in the code
RECURSIVE FilterLoop(_, _, _)
FilterLoop(lines, filter, i) ==
    IF i > Len(lines) THEN <<>>
    ELSE (IF filter = <<>> \/ Contains(ToLower(lines[i].Content), ToLower(filter))
          THEN <<i - 1>> ELSE <<>>) \o FilterLoop(lines, filter, i + 1)

\* variant: recomputing the filter resets the offset to 0
updateFilteredResets(mm, c) ==
    LET f   == FilterLoop(mm.lines, mm.filter, 1)
        c1  == IF mm.cursor >= Len(f) THEN Len(f) - 1 ELSE mm.cursor
        c2  == IF c1 < 0 THEN 0 ELSE c1
    IN  [mm EXCEPT !.filtered = f, !.cursor = c2, !.offset = 0]

updateFiltered(mm, c) ==
    LET f   == FilterLoop(mm.lines, mm.filter, 1)
        c1  == IF mm.cursor >= Len(f) THEN Len(f) - 1 ELSE mm.cursor
        c2  == IF c1 < 0 THEN 0 ELSE c1
        m1  == [mm EXCEPT !.filtered = f, !.cursor = c2]
        visible == visibleLines(m1, c)
        maxOffset == max(Len(f) - visible, 0)
    IN  IF visible > 0 /\ m1.offset > maxOffset
        THEN [m1 EXCEPT !.offset = maxOffset]
        ELSE m1

adjustOffset(mm, c) ==
    LET visible == visibleLines(mm, c)
        ideal0 == mm.cursor - GoDiv(visible, 2)
        ideal1 == max(ideal0, 0)
        maxOffset == max(Len(mm.filtered) - visible, 0)
    IN  IF visible <= 0 THEN mm
        ELSE [mm EXCEPT !.offset = min(ideal1, maxOffset)]

moveCursor(mm, c, delta) ==
    LET c0 == mm.cursor + delta
        c1 == IF c0 < 0 THEN 0 ELSE c0
        c2 == IF c1 >= Len(mm.filtered) THEN Len(mm.filtered) - 1 ELSE c1
        c3 == IF c2 < 0 THEN 0 ELSE c2
    IN  adjustOffset([mm EXCEPT !.cursor = c3], c)

(***************************************************************************)
(* ui.go: handleKeyPress.  The result is the new viewport and the command  *)
(* the handler returns: "none", "quit" (m.cancel() and tea.Quit) or        *)
(* "start" (the handler has called startStreaming, applied by the action). *)
(***************************************************************************)
Keys == { "q", "ctrl+c", "esc", "j", "down", "ctrl+n", "k", "up", "ctrl+p",
          "g", "home", "G", "end", "ctrl+d", "ctrl+u", "pgdown", "ctrl+f",
          "pgup", "ctrl+b", "p", "r", "ctrl+r", "/", "?", "y", "enter",
          "backspace", "B", "b" }

\* keys bubbletea delivers with Type == KeyRunes
RuneKeys == { "q", "j", "k", "g", "G", "p", "r", "/", "?", "y", "B", "b" }

KeyType(k) ==
    CASE k = "esc" -> "KeyEsc"
      [] k = "enter" -> "KeyEnter"
      [] k = "backspace" -> "KeyBackspace"
      [] k \in RuneKeys -> "KeyRunes"
      [] OTHER -> "KeyOther"

Ret(mm, cmd) == [m |-> mm, cmd |-> cmd]

\* variant: q and ctrl+c quit from the help overlay as they do from the list
helpKeyQuits(mm, k) ==
    IF k \in {"q", "ctrl+c"} THEN Ret(mm, "quit")
    ELSE IF k \in {"?", "esc", "enter"}
    THEN Ret([mm EXCEPT !.showHelp = FALSE], "none")
    ELSE Ret(mm, "none")

helpKey(mm, k) ==
    IF k \in {"?", "esc", "q", "enter"}
    THEN Ret([mm EXCEPT !.showHelp = FALSE], "none")
    ELSE Ret(mm, "none")

\* variant: Enter in filter entry clears the filter, as Esc does
filterKeyEnterClears(mm, c, k) ==
    CASE KeyType(k) \in {"KeyEsc", "KeyEnter"} ->
            Ret(updateFiltered([mm EXCEPT !.filterMode = FALSE, !.filter = <<>>], c), "none")
      [] KeyType(k) = "KeyBackspace" ->
            IF Len(mm.filter) > 0
            THEN Ret(updateFiltered(
                     [mm EXCEPT !.filter = SubSeq(mm.filter, 1, Len(mm.filter) - 1)], c), "none")
            ELSE Ret(mm, "none")
      [] KeyType(k) = "KeyRunes" ->
            Ret(updateFiltered([mm EXCEPT !.filter = Append(mm.filter, k)], c), "none")
      [] OTHER -> Ret(mm, "none")

filterKey(mm, c, k) ==
    CASE KeyType(k) = "KeyEsc" ->
            Ret(updateFiltered([mm EXCEPT !.filterMode = FALSE, !.filter = <<>>], c), "none")
      [] KeyType(k) = "KeyEnter" ->
            Ret([mm EXCEPT !.filterMode = FALSE], "none")
      [] KeyType(k) = "KeyBackspace" ->
            IF Len(mm.filter) > 0
            THEN Ret(updateFiltered(
                     [mm EXCEPT !.filter = SubSeq(mm.filter, 1, Len(mm.filter) - 1)], c), "none")
            ELSE Ret(mm, "none")
      [] KeyType(k) = "KeyRunes" ->
            Ret(updateFiltered([mm EXCEPT !.filter = Append(mm.filter, k)], c), "none")
      [] OTHER -> Ret(mm, "none")

enterFilterMode(mm) == [mm EXCEPT !.filterMode = TRUE, !.filter = <<>>]

\* variant: jump-to-end on an empty list leaves userScrolled alone
jumpToEndKeepsScrolled(mm, c) ==
    IF Len(mm.filtered) > 0
    THEN adjustOffset([mm EXCEPT !.userScrolled = FALSE, !.cursor = Len(mm.filtered) - 1], c)
    ELSE mm

\* case "G", "end"
jumpToEnd(mm, c) ==
    IF Len(mm.filtered) > 0
    THEN adjustOffset([mm EXCEPT !.userScrolled = FALSE, !.cursor = Len(mm.filtered) - 1], c)
    ELSE [mm EXCEPT !.userScrolled = FALSE]

\* variant: the preview toggle does not recompute the offset
togglePreviewKeepsOffset(mm, c) == [mm EXCEPT !.showPreview = ~mm.showPreview]

\* case "p"
togglePreview(mm, c) == adjustOffset([mm EXCEPT !.showPreview = ~mm.showPreview], c)

normalKey(mm, c, k) ==
    CASE k \in {"q", "ctrl+c"} -> Ret(mm, "quit")
      [] k = "esc" ->
            IF mm.filter # <<>>
            THEN Ret(updateFiltered([mm EXCEPT !.filter = <<>>], c), "none")
            ELSE Ret(mm, "quit")
      [] k \in {"j", "down", "ctrl+n"} ->
            Ret(moveCursor([mm EXCEPT !.userScrolled = TRUE], c, 1), "none")
      [] k \in {"k", "up", "ctrl+p"} ->
            Ret(moveCursor([mm EXCEPT !.userScrolled = TRUE], c, -1), "none")
      [] k \in {"g", "home"} ->
            Ret([mm EXCEPT !.userScrolled = TRUE, !.cursor = 0, !.offset = 0], "none")
      [] k \in {"G", "end"} -> Ret(jumpToEnd(mm, c), "none")
      [] k = "ctrl+d" ->
            Ret(moveCursor([mm EXCEPT !.userScrolled = TRUE], c,
                           GoDiv(visibleLines(mm, c), 2)), "none")
      [] k = "ctrl+u" ->
            Ret(moveCursor([mm EXCEPT !.userScrolled = TRUE], c,
                           GoDiv(-visibleLines(mm, c), 2)), "none")
      [] k \in {"pgdown", "ctrl+f"} ->
            Ret(moveCursor([mm EXCEPT !.userScrolled = TRUE], c, visibleLines(mm, c)), "none")
      [] k \in {"pgup", "ctrl+b"} ->
            Ret(moveCursor([mm EXCEPT !.userScrolled = TRUE], c, -visibleLines(mm, c)), "none")
      [] k = "p" -> Ret(togglePreview(mm, c), "none")
      [] k \in {"r", "ctrl+r"} -> Ret(mm, "start")
      [] k = "/" -> Ret(enterFilterMode(mm), "none")
      [] k = "?" -> Ret([mm EXCEPT !.showHelp = TRUE], "none")
      [] OTHER -> Ret(mm, "none")

handleKeyPress(mm, c, k) ==
    IF mm.showHelp THEN helpKey(mm, k)
    ELSE IF mm.filterMode THEN filterKey(mm, c, k)
    ELSE normalKey(mm, c, k)

(***************************************************************************)
(* ui.go: View and renderMainView.  A frame is the sequence of its rows; a *)
(* row keeps what it shows, not its styling: kind, the Number of the line  *)
(* on a list row and whether it is the selected row.                       *)
(***************************************************************************)
FrameRow(kind, n, sel) == [kind |-> kind, n |-> n, sel |-> sel]

Blank == FrameRow("blank", 0, FALSE)

Chrome(kind) == FrameRow(kind, 0, FALSE)

\* the loop that builds listLines, then "if m.errorMsg != """
listLines(mm, c) ==
    LET listHeight == visibleLines(mm, c)
        rows == [i \in 1..max(listHeight, 0) |->
                    LET lineIdx == mm.offset + i - 1
                    IN  IF lineIdx >= Len(mm.filtered) THEN Blank
                        ELSE LET idx == mm.filtered[lineIdx + 1]
                             IN  IF idx >= Len(mm.lines) THEN Blank
                                 ELSE FrameRow("line", mm.lines[idx + 1].Number,
                                               lineIdx = mm.cursor)]
    IN  IF mm.errorMsg # NoError THEN Append(rows, Chrome("error")) ELSE rows

\* the loops "for i := range listHeight" of the content area
contentRows(mm, c) ==
    LET ll == listLines(mm, c)
    IN  [i \in 1..max(visibleLines(mm, c), 0) |-> IF i - 1 < Len(ll) THEN ll[i] ELSE Blank]

\* previewLines[:previewH]
previewRows(mm, c) == [i \in 1..max(previewSize(mm, c), 0) |-> Chrome("preview")]

renderMainView(mm, c) ==
    LET content ==
            IF ~mm.showPreview THEN contentRows(mm, c)
            ELSE CASE c.PreviewPosition = "top" ->
                          previewRows(mm, c) \o <<Chrome("separator")>> \o contentRows(mm, c)
                   [] c.PreviewPosition = "bottom" ->
                          contentRows(mm, c) \o <<Chrome("separator")>> \o previewRows(mm, c)
                   [] OTHER -> contentRows(mm, c)   \* left, right: list and preview share a row
    IN  <<Chrome("top"), Chrome("header"), Chrome("separator")>> \o content
            \o <<Chrome("bottom"), Chrome("prompt")>>

innerWidth(mm) == mm.width - 2

\* "if m.showPreview && len(m.filtered) > 0 && ..." : the content of the selected line
previewContent(mm) ==
    IF mm.showPreview /\ Len(mm.filtered) > 0 /\ mm.cursor >= 0
       /\ mm.cursor < Len(mm.filtered) /\ mm.filtered[mm.cursor + 1] < Len(mm.lines)
    THEN mm.lines[mm.filtered[mm.cursor + 1] + 1].Content
    ELSE <<>>

\* the preview pane at the left or right: wrapText(previewContent, previewW), padded
\* with empty lines to listHeight
sidePreviewLines(mm, c) ==
    LET wrapped == IF previewContent(mm) # <<>>
                   THEN wrapText("strict", previewContent(mm), previewSize(mm, c))
                   ELSE <<>>
    IN  [i \in 1..max(Len(wrapped), visibleLines(mm, c)) |->
            IF i <= Len(wrapped) THEN wrapped[i] ELSE <<>>]

\* renderMainView does not return a frame: it panics in strings.Repeat with a negative
\* count (the borders of hLine, hLineMid and hLineBottom when innerWidth < 0; the
\* padding of fitToWidth for a preview line wider than its pane) or in the slice
\* previewLines[:previewH] with previewH < 0
renderPanics(mm, c) ==
    \/ innerWidth(mm) < 0
    \/ /\ mm.showPreview /\ c.PreviewPosition \in {"top", "bottom"}
       /\ previewSize(mm, c) < 0
    \/ /\ mm.showPreview /\ c.PreviewPosition \in {"left", "right"}
       /\ \E i \in 1..visibleLines(mm, c) :
             Width("strict", sidePreviewLines(mm, c)[i]) > previewSize(mm, c)

\* View, without the help overlay
View(mm, c) ==
    IF mm.width = 0 \/ mm.height = 0 THEN <<Chrome("spinner")>>
    ELSE renderMainView(mm, c)

(***************************************************************************)
(* ui.go: startStreaming; runner.go: RunStreaming up to the go statement   *)
(***************************************************************************)
\* variant: the error message survives a restart
startStreamingKeepsError(mm) ==
    [mm EXCEPT !.hasResult = TRUE, !.streaming = TRUE, !.loading = TRUE,
               !.lastLineCount = Len(mm.lines), !.exitCode = -1,
               !.userScrolled = FALSE]

\* mutant: userScrolled survives a restart
startStreamingKeepsScroll(mm) ==
    [mm EXCEPT !.hasResult = TRUE, !.streaming = TRUE, !.loading = TRUE,
               !.lastLineCount = Len(mm.lines), !.exitCode = -1,
               !.errorMsg = NoError]

\* the viewport after startStreaming
startStreaming(mm) ==
    [mm EXCEPT !.hasResult = TRUE, !.streaming = TRUE, !.loading = TRUE,
               !.lastLineCount = Len(mm.lines), !.exitCode = -1,
               !.errorMsg = NoError, !.userScrolled = FALSE]

\* the StreamingResult RunStreaming returns
RunStreaming(prevLines) ==
    [Lines |-> prevLines, ExitCode |-> -1, Done |-> FALSE, Error |-> NoError,
     PrevLineCount |-> Len(prevLines), CurrentLineCount |-> 0]

NoProc == [st |-> "none", code |-> 0]

\* no superseded execution; followed says whether superseded executions are followed
\* to their end or dropped when they are superseded
NoPrev(followed) ==
    [followed |-> followed, res |-> RunStreaming(<<>>), lineNum |-> 1,
     rd |-> [r \in Readers |-> [pc |-> "idle", line |-> Line(0, <<>>)]],
     mainPc |-> "none", proc |-> NoProc, ctxCancelled |-> FALSE]

\* variant: startStreaming does not cancel the context of the execution it supersedes
SupersededNotCancelled(r, n, readers, pc, p, cancelled) ==
    [followed |-> TRUE, res |-> r, lineNum |-> n, rd |-> readers, mainPc |-> pc,
     proc |-> p, ctxCancelled |-> cancelled]

\* "m.cancel()" at the head of startStreaming: the execution goes on with its context
\* cancelled
Superseded(r, n, readers, pc, p, cancelled) ==
    [followed |-> TRUE, res |-> r, lineNum |-> n, rd |-> readers, mainPc |-> pc,
     proc |-> p, ctxCancelled |-> TRUE]

\* RunStreaming: "lines := make([]Line, len(prevLines)); copy(lines, prevLines)", the
\* buffer does not share the array of prevLines
RunStreamingShares == FALSE

\* a new execution replaces the current one: a fresh context, result and goroutine
NewExecution(prevLines) ==
    /\ viewShared' = RunStreamingShares
    /\ prev' = IF prev.followed
              THEN Superseded(res, lineNum, rd, mainPc, proc, ctxCancelled)
              ELSE prev
    /\ res' = RunStreaming(prevLines)
    /\ ctxCancelled' = FALSE
    /\ mainPc' = "spawn"
    /\ lineNum' = 1
    /\ rd' = [r \in Readers |-> [pc |-> "idle", line |-> Line(0, <<>>)]]
    /\ proc' = NoProc
    /\ emitted' = <<>>

(***************************************************************************)
(* runner.go: the goroutine of RunStreaming                                *)
(***************************************************************************)
Fail(msg) ==
    /\ res' = [res EXCEPT !.Error = msg, !.Done = TRUE]
    /\ mainPc' = "finished"
    /\ UNCHANGED <<lineNum, rd, proc, ctxCancelled, emitted, prev, uiVars, viewShared>>

StdoutPipeFails == mainPc = "spawn" /\ Fail("failed to create stdout pipe")

StderrPipeFails == mainPc = "spawn" /\ Fail("failed to create stderr pipe")

\* cmd.Start fails: the shell is missing, or the context is already cancelled
StartFails == mainPc = "spawn" /\ Fail("failed to start command")

StartSucceeds ==
    /\ mainPc = "spawn"
    /\ ~ctxCancelled
    /\ mainPc' = "reading"
    /\ proc' = [st |-> "running", code |-> 0]
    /\ rd' = [r \in Readers |-> [pc |-> "scan", line |-> Line(0, <<>>)]]
    /\ UNCHANGED <<res, lineNum, ctxCancelled, emitted, prev, uiVars, viewShared>>

\* scanner.Scan() returns a line; the number is taken under lineNumMu
TakeNumber(n) == [currentLineNum |-> n, lineIdx |-> n - 1, next |-> n + 1]

ReaderScan(r, raws) ==
    /\ rd[r].pc = "scan"
    /\ \E raw \in raws :
          LET t == TakeNumber(lineNum)
              newLine == Line(t.currentLineNum, sanitizeLine(raw))
          IN  /\ lineNum' = t.next
              /\ rd' = [rd EXCEPT ![r] = [pc |-> "write", line |-> newLine]]
              /\ emitted' = Append(emitted, newLine.Content)
    /\ UNCHANGED <<res, mainPc, proc, ctxCancelled, prev, uiVars, viewShared>>

\* mutant: CurrentLineCount tracks the buffer's length instead of the line number
StoreLineCountIsLen(s, newLine) ==
    LET lineIdx == newLine.Number - 1
        ls == IF lineIdx < Len(s.Lines)
              THEN [s.Lines EXCEPT ![lineIdx + 1] = newLine]
              ELSE Append(s.Lines, newLine)
    IN  [s EXCEPT !.Lines = ls, !.CurrentLineCount = Len(ls)]

\* the section of readPipe under result.mu
StoreLine(s, newLine) ==
    LET lineIdx == newLine.Number - 1
        ls == IF lineIdx < Len(s.Lines)
              THEN [s.Lines EXCEPT ![lineIdx + 1] = newLine]
              ELSE Append(s.Lines, newLine)
    IN  [s EXCEPT !.Lines = ls,
                  !.CurrentLineCount = IF newLine.Number > s.CurrentLineCount
                                       THEN newLine.Number ELSE s.CurrentLineCount]

\* what a store into the buffer does to lines that share its array: the element at
\* lineIdx is overwritten when it is inside them
WriteThrough(ls, newLine) ==
    IF newLine.Number - 1 < Len(ls) THEN [ls EXCEPT ![newLine.Number] = newLine] ELSE ls

ReaderWrite(r) ==
    /\ rd[r].pc = "write"
    /\ res' = StoreLine(res, rd[r].line)
    /\ rd' = [rd EXCEPT ![r] = [pc |-> "scan", line |-> Line(0, <<>>)]]
    /\ m' = IF viewShared THEN [m EXCEPT !.lines = WriteThrough(m.lines, rd[r].line)]
            ELSE m
    \* append may move the buffer to a new array
    /\ viewShared' \in {viewShared, viewShared /\ rd[r].line.Number - 1 < Len(res.Lines)}
    /\ UNCHANGED <<lineNum, mainPc, proc, ctxCancelled, emitted, prev,
                   cfg, quit, uiPc, pendStart, pendStream, pendRefresh, retried, txt>>

\* scanner.Scan() returns false: the pipe is closed, the child is gone
ReaderEOF(r) ==
    /\ rd[r].pc = "scan"
    /\ proc.st # "running"
    /\ rd' = [rd EXCEPT ![r].pc = "done"]
    /\ UNCHANGED <<res, lineNum, mainPc, proc, ctxCancelled, emitted, prev, uiVars, viewShared>>

\* the child exits by itself with status c
ProcExit ==
    /\ proc.st = "running"
    /\ \E c \in ExitCodes : proc' = [st |-> "exited", code |-> c]
    /\ UNCHANGED <<res, lineNum, rd, mainPc, ctxCancelled, emitted, prev, uiVars, viewShared>>

\* exec.CommandContext kills the child once the context is done
ProcKill ==
    /\ proc.st = "running"
    /\ ctxCancelled
    /\ proc' = [st |-> "killed", code |-> -1]
    /\ UNCHANGED <<res, lineNum, rd, mainPc, ctxCancelled, emitted, prev, uiVars, viewShared>>

\* the exit codes the code after cmd.Wait() can compute
\* mutant: the branch for a cancelled context is taken for a clean exit only
WaitExitCodeKilledIsZero(p, cancelled) ==
    IF p.st = "killed" THEN {0}
    ELSE IF p.code # 0 THEN {p.code}
    ELSE IF cancelled THEN {0, -1}
    ELSE {0}

WaitExitCode(p, cancelled) ==
    IF p.st = "killed" THEN {-1}          \* *exec.ExitError of a signalled child
    ELSE IF p.code # 0 THEN {p.code}      \* *exec.ExitError
    ELSE IF cancelled THEN {0, -1}        \* nil, or ctx.Err() from the context watcher
    ELSE {0}

\* variant: Done is set without waiting for the readers and the child
FinishWithoutWaiting ==
    /\ mainPc = "reading"
    /\ \E ec \in WaitExitCode(proc, ctxCancelled) :
          res' = [res EXCEPT !.ExitCode = ec, !.Done = TRUE]
    /\ mainPc' = "finished"
    /\ UNCHANGED <<lineNum, rd, proc, ctxCancelled, emitted, prev, uiVars, viewShared>>

\* wg.Wait(), cmd.Wait(), then ExitCode and Done are set under result.mu
Finish ==
    /\ mainPc = "reading"
    /\ \A r \in Readers : rd[r].pc = "done"
    /\ \E ec \in WaitExitCode(proc, ctxCancelled) :
          res' = [res EXCEPT !.ExitCode = ec, !.Done = TRUE]
    /\ mainPc' = "finished"
    /\ UNCHANGED <<lineNum, rd, proc, ctxCancelled, emitted, prev, uiVars, viewShared>>

(***************************************************************************)
(* runner.go: the goroutine, readers and child of the superseded execution *)
(* go on after startStreaming has replaced m.streamResult                  *)
(***************************************************************************)
PrevRuns == prev.followed /\ prev.mainPc \in {"spawn", "reading"}

\* cmd.Start fails on the cancelled context
PrevStartFails ==
    /\ prev.followed /\ prev.mainPc = "spawn" /\ prev.ctxCancelled
    /\ prev' = [prev EXCEPT !.res = [prev.res EXCEPT !.Error = "failed to start command",
                                                     !.Done = TRUE],
                            !.mainPc = "finished"]
    /\ UNCHANGED <<res, lineNum, rd, mainPc, proc, ctxCancelled, emitted, uiVars, viewShared>>

PrevReaderScan(r, raws) ==
    /\ prev.followed /\ prev.rd[r].pc = "scan"
    /\ \E raw \in raws :
          LET t == TakeNumber(prev.lineNum)
              newLine == Line(t.currentLineNum, sanitizeLine(raw))
          IN  prev' = [prev EXCEPT !.lineNum = t.next,
                                   !.rd[r] = [pc |-> "write", line |-> newLine]]
    /\ UNCHANGED <<res, lineNum, rd, mainPc, proc, ctxCancelled, emitted, uiVars, viewShared>>

PrevReaderWrite(r) ==
    /\ prev.followed /\ prev.rd[r].pc = "write"
    /\ prev' = [prev EXCEPT !.res = StoreLine(prev.res, prev.rd[r].line),
                            !.rd[r] = [pc |-> "scan", line |-> Line(0, <<>>)]]
    /\ UNCHANGED <<res, lineNum, rd, mainPc, proc, ctxCancelled, emitted, uiVars, viewShared>>

PrevReaderEOF(r) ==
    /\ prev.followed /\ prev.rd[r].pc = "scan"
    /\ prev.proc.st # "running"
    /\ prev' = [prev EXCEPT !.rd[r].pc = "done"]
    /\ UNCHANGED <<res, lineNum, rd, mainPc, proc, ctxCancelled, emitted, uiVars, viewShared>>

PrevProcExit ==
    /\ prev.followed /\ prev.proc.st = "running"
    /\ \E c \in ExitCodes : prev' = [prev EXCEPT !.proc = [st |-> "exited", code |-> c]]
    /\ UNCHANGED <<res, lineNum, rd, mainPc, proc, ctxCancelled, emitted, uiVars, viewShared>>

PrevProcKill ==
    /\ prev.followed /\ prev.proc.st = "running"
    /\ prev.ctxCancelled
    /\ prev' = [prev EXCEPT !.proc = [st |-> "killed", code |-> -1]]
    /\ UNCHANGED <<res, lineNum, rd, mainPc, proc, ctxCancelled, emitted, uiVars, viewShared>>

PrevFinish ==
    /\ prev.followed /\ prev.mainPc = "reading"
    /\ \A r \in Readers : prev.rd[r].pc = "done"
    /\ \E ec \in WaitExitCode(prev.proc, prev.ctxCancelled) :
          prev' = [prev EXCEPT !.res = [prev.res EXCEPT !.ExitCode = ec, !.Done = TRUE],
                               !.mainPc = "finished"]
    /\ UNCHANGED <<res, lineNum, rd, mainPc, proc, ctxCancelled, emitted, uiVars, viewShared>>

\* the goroutines and the child of the superseded execution
PrevStep(emitters, raws) ==
    \/ PrevStartFails
    \/ \E r \in emitters : PrevReaderScan(r, raws)
    \/ \E r \in Readers : PrevReaderWrite(r)
    \/ \E r \in Readers : PrevReaderEOF(r)
    \/ PrevProcExit
    \/ PrevProcKill
    \/ PrevFinish

(***************************************************************************)
(* ui.go: initialModel, Init and the handlers of Update                    *)
(***************************************************************************)
Configs ==
    { [RefreshInterval |-> ri, PreviewPosition |-> "bottom", PreviewSize |-> 1,
       PreviewSizeIsPercent |-> FALSE] : ri \in {0, 1} }

Widths == { 20 }

initialModel ==
    [lines |-> <<>>, filtered |-> <<>>, cursor |-> 0, offset |-> 0, filter |-> <<>>,
     filterMode |-> FALSE, showPreview |-> FALSE, showHelp |-> FALSE,
     width |-> 0, height |-> 0, loading |-> TRUE, streaming |-> FALSE,
     hasResult |-> FALSE, lastLineCount |-> 0, userScrolled |-> FALSE,
     errorMsg |-> NoError, exitCode |-> 0]

InitProgram(configs, followed) ==
    /\ m = initialModel
    /\ cfg \in configs
    /\ quit = FALSE
    /\ uiPc = "idle"
    /\ pendStart = TRUE
    /\ pendStream = 0
    /\ pendRefresh = 0
    /\ retried = FALSE
    /\ txt = NoCall
    /\ res = RunStreaming(<<>>)
    /\ lineNum = 1
    /\ rd = [r \in Readers |-> [pc |-> "idle", line |-> Line(0, <<>>)]]
    /\ mainPc = "none"
    /\ proc = NoProc
    /\ ctxCancelled = FALSE
    /\ emitted = <<>>
    /\ prev = NoPrev(followed)
    /\ viewShared = FALSE

\* the program specifications drop an execution when it is superseded
Init == InitProgram(Configs, FALSE)

UiReady == ~quit /\ uiPc = "idle"

\* case startStreamMsg
StartStreamMsg ==
    /\ UiReady
    /\ pendStart
    /\ pendStart' = FALSE
    /\ m' = startStreaming(m)
    /\ NewExecution(m.lines)
    /\ pendStream' = pendStream + 1
    /\ retried' = FALSE
    /\ UNCHANGED <<cfg, quit, uiPc, pendRefresh, txt>>

\* case tea.KeyMsg
KeyMsg(k) ==
    /\ UiReady
    /\ m.filterMode /\ ~m.showHelp /\ KeyType(k) = "KeyRunes"
          => k \in FilterRunes /\ Len(m.filter) < MaxFilterLen
    /\ LET r == handleKeyPress(m, cfg, k)
       IN  CASE r.cmd = "start" ->
                  /\ pendStream < MaxPending
                  /\ m' = startStreaming(r.m)
                  /\ NewExecution(r.m.lines)
                  /\ pendStream' = pendStream + 1
                  /\ retried' = (m.errorMsg # NoError)
                  /\ UNCHANGED quit
             [] r.cmd = "quit" ->
                  /\ m' = r.m
                  /\ quit' = TRUE
                  /\ ctxCancelled' = TRUE
                  /\ UNCHANGED <<pendStream, retried, res, lineNum, rd, mainPc, proc, emitted, prev,
                                 viewShared>>
             [] OTHER ->
                  /\ m' = r.m
                  /\ UNCHANGED <<quit, pendStream, retried, runVars, viewShared>>
    /\ UNCHANGED <<cfg, uiPc, pendStart, pendRefresh, txt>>

\* case tea.WindowSizeMsg
windowSize(mm, w, h) == [mm EXCEPT !.width = w, !.height = h]

WindowSizeMsg(w, h) ==
    /\ UiReady
    /\ m' = windowSize(m, w, h)
    /\ UNCHANGED <<cfg, quit, uiPc, pendStart, pendStream, pendRefresh, retried, txt, runVars, viewShared>>

\* StreamingResult.GetLines: a copy of the lines
GetLines(s) == s.Lines

\* variant: GetLines returns *s.Lines itself
GetLinesReturnsBuffer == TRUE

\* GetLines: "lines := make([]Line, len(*s.Lines)); copy(lines, *s.Lines)", the
\* snapshot does not share the array of the buffer
GetLinesShares == FALSE

\* variant: a poll tick polls the result of the superseded execution while there is one
streamResultOfOldRun == IF prev.mainPc # "none" THEN prev.res ELSE res

\* m.streamResult: startStreaming has stored the result of the latest RunStreaming
streamResult == res

\* variant: the tick never follows the tail
tickSnapshotNeverFollows(mm, c, newLines) ==
    LET newCount == Len(newLines)
    IN  IF newCount # mm.lastLineCount
        THEN updateFiltered([mm EXCEPT !.lines = newLines, !.lastLineCount = newCount], c)
        ELSE mm

\* variant: the tick follows the tail whether or not the user has scrolled
tickSnapshotAlwaysFollows(mm, c, newLines) ==
    LET newCount == Len(newLines)
        m1 == updateFiltered([mm EXCEPT !.lines = newLines, !.lastLineCount = newCount], c)
        visible == visibleLines(m1, c)
    IN  IF newCount # mm.lastLineCount
        THEN IF visible > 0
             THEN [m1 EXCEPT !.cursor = max(Len(m1.filtered) - 1, 0),
                             !.offset = max(Len(m1.filtered) - visible, 0)]
             ELSE m1
        ELSE mm

\* case streamTickMsg, up to the end of "if newCount != m.lastLineCount"
tickSnapshot(mm, c, newLines) ==
    LET newCount == Len(newLines)
        m1 == updateFiltered([mm EXCEPT !.lines = newLines, !.lastLineCount = newCount], c)
        visible == visibleLines(m1, c)
    IN  IF newCount # mm.lastLineCount
        THEN IF ~m1.userScrolled /\ visible > 0
             THEN [m1 EXCEPT !.cursor = max(Len(m1.filtered) - 1, 0),
                             !.offset = max(Len(m1.filtered) - visible, 0)]
             ELSE m1
        ELSE mm

StreamTickSnapshot ==
    /\ UiReady
    /\ pendStream > 0
    /\ pendStream' = pendStream - 1
    /\ IF ~m.hasResult
       THEN UNCHANGED <<m, uiPc, viewShared>>
       ELSE /\ m' = tickSnapshot(m, cfg, GetLines(streamResult))
            \* "m.lines = newLines" makes the snapshot the viewport's lines
            /\ viewShared' = IF Len(GetLines(streamResult)) # m.lastLineCount
                             THEN GetLinesShares ELSE viewShared
            /\ uiPc' = "tickDone"
    /\ UNCHANGED <<cfg, quit, pendStart, pendRefresh, retried, txt, runVars>>

\* variant: the done tick does not copy the run's error
tickDoneDropsError(mm, c, s) ==
    LET m1 == [mm EXCEPT !.streaming = FALSE, !.loading = FALSE, !.exitCode = s.ExitCode]
        currentCount == s.CurrentLineCount
    IN  IF currentCount < Len(m1.lines)
        THEN updateFiltered([m1 EXCEPT !.lines = SubSeq(m1.lines, 1, currentCount)], c)
        ELSE m1

\* variant: the done tick trims the lines without recomputing filteredIndices
tickDoneTrimsOnly(mm, c, s) ==
    LET m1 == [mm EXCEPT !.streaming = FALSE, !.loading = FALSE,
                         !.exitCode = s.ExitCode,
                         !.errorMsg = IF s.Error # NoError THEN s.Error ELSE mm.errorMsg]
        currentCount == s.CurrentLineCount
    IN  IF currentCount < Len(m1.lines)
        THEN [m1 EXCEPT !.lines = SubSeq(m1.lines, 1, currentCount)]
        ELSE m1

\* variant: the done tick does not record the exit code
tickDoneKeepsExitCode(mm, c, s) ==
    LET m1 == [mm EXCEPT !.streaming = FALSE, !.loading = FALSE,
                         !.errorMsg = IF s.Error # NoError THEN s.Error ELSE mm.errorMsg]
        currentCount == s.CurrentLineCount
    IN  IF currentCount < Len(m1.lines)
        THEN updateFiltered([m1 EXCEPT !.lines = SubSeq(m1.lines, 1, currentCount)], c)
        ELSE m1

\* case streamTickMsg, "if m.streamResult.IsDone()" with the result done
tickDone(mm, c, s) ==
    LET m1 == [mm EXCEPT !.streaming = FALSE, !.loading = FALSE,
                         !.exitCode = s.ExitCode,
                         !.errorMsg = IF s.Error # NoError THEN s.Error ELSE mm.errorMsg]
        currentCount == s.CurrentLineCount
    IN  IF currentCount < Len(m1.lines)
        THEN updateFiltered([m1 EXCEPT !.lines = SubSeq(m1.lines, 1, currentCount)], c)
        ELSE m1

\* variant: a tick that finds the run still going does not arm the next tick
StreamTickDoneStops ==
    /\ ~quit
    /\ uiPc = "tickDone"
    /\ uiPc' = "idle"
    /\ IF streamResult.Done
       THEN /\ m' = tickDone(m, cfg, streamResult)
            /\ IF cfg.RefreshInterval > 0
               THEN pendRefresh < MaxPending /\ pendRefresh' = pendRefresh + 1
               ELSE UNCHANGED pendRefresh
            /\ UNCHANGED pendStream
       ELSE UNCHANGED <<m, pendRefresh, pendStream>>
    /\ UNCHANGED <<cfg, quit, pendStart, retried, txt, runVars, viewShared>>

\* the rest of the streamTickMsg handler: IsDone() is read after GetLines()
StreamTickDone ==
    /\ ~quit
    /\ uiPc = "tickDone"
    /\ uiPc' = "idle"
    /\ IF streamResult.Done
       THEN /\ m' = tickDone(m, cfg, streamResult)
            /\ IF cfg.RefreshInterval > 0
               THEN pendRefresh < MaxPending /\ pendRefresh' = pendRefresh + 1
               ELSE UNCHANGED pendRefresh
            /\ UNCHANGED pendStream
       ELSE /\ pendStream' = pendStream + 1
            /\ UNCHANGED <<m, pendRefresh>>
    /\ UNCHANGED <<cfg, quit, pendStart, retried, txt, runVars, viewShared>>

\* case tickMsg: the refresh timer fired
TickMsg ==
    /\ UiReady
    /\ pendRefresh > 0
    /\ pendRefresh' = pendRefresh - 1
    /\ IF cfg.RefreshInterval > 0 /\ ~m.streaming
       THEN /\ pendStream < MaxPending
            /\ m' = startStreaming(m)
            /\ NewExecution(m.lines)
            /\ pendStream' = pendStream + 1
            /\ retried' = FALSE
       ELSE UNCHANGED <<m, pendStream, retried, runVars, viewShared>>
    /\ UNCHANGED <<cfg, quit, uiPc, pendStart, txt>>

\* the goroutines of the execution and its child; emitters are the pipes the child
\* prints on, raws the lines it can print next
RunnerStep(emitters, raws) ==
    \/ StdoutPipeFails
    \/ StderrPipeFails
    \/ StartFails
    \/ StartSucceeds
    \/ \E r \in emitters : ReaderScan(r, raws)
    \/ \E r \in Readers : ReaderWrite(r)
    \/ \E r \in Readers : ReaderEOF(r)
    \/ ProcExit
    \/ ProcKill
    \/ Finish

\* the messages bubbletea delivers to Update
UiStep(keys) ==
    \/ StartStreamMsg
    \/ \E k \in keys : KeyMsg(k)
    \/ StreamTickSnapshot
    \/ StreamTickDone
    \/ TickMsg

Resize == \E w \in Widths, h \in Heights : WindowSizeMsg(w, h)

\* The viewport under navigation, filtering, reloading and resizing, with a child that
\* prints a fixed text on stdout: line k is RawAt(k)
RawAt(k) == IF k % 2 = 1 THEN <<"a", "\r">> ELSE <<"B", "a">>

\* one key of every case of handleKeyPress but the help overlay and the preview toggle
NavKeys == { "q", "esc", "j", "k", "g", "G", "ctrl+d", "ctrl+u", "pgdown", "pgup",
             "r", "/", "y", "enter", "backspace", "B" }

\* what the child prints as line k: MaxEmit lines at most
Output(k) == IF k <= MaxEmit THEN {RawAt(k)} ELSE {}

Next == UiStep(NavKeys) \/ Resize \/ RunnerStep({"stdout"}, Output(lineNum))

Spec == Init /\ [][Next]_vars

\* The two readers racing, with the viewport reloading and quitting
StreamKeys == { "r", "q" }

\* the child prints any of RawLines as line k, on either pipe
AnyOutput(k) == IF k <= MaxEmit THEN RawLines ELSE {}

NextStream == UiStep(StreamKeys) \/ RunnerStep(Readers, AnyOutput(lineNum))

SpecStream == Init /\ [][NextStream]_vars

\* the Go scheduler runs every goroutine that can run, and the kernel ends a killed child
FairStream == SpecStream /\ WF_vars(RunnerStep(Readers, AnyOutput(lineNum)))

\* The scenario of a command that prints the three lines a, b, c on stdout, with
\* the filter b, the preview toggle, resizing and the refresh timer
AbcText == << <<"a">>, <<"b">>, <<"c">> >>

AbcOutput(k) == IF k <= Len(AbcText) THEN {AbcText[k]} ELSE {}

LoadKeys == { "/", "b", "enter", "p", "q" }

NextLoad == UiStep(LoadKeys) \/ Resize \/ RunnerStep({"stdout"}, AbcOutput(lineNum))

SpecLoad == Init /\ [][NextLoad]_vars

\* The layout geometry over the preview configurations, before any run is started
LayoutConfigs ==
    { [RefreshInterval |-> 0, PreviewPosition |-> pos, PreviewSize |-> size,
       PreviewSizeIsPercent |-> pct] :
         pos \in {"top", "bottom", "left", "right"}, size \in {10, 40}, pct \in BOOLEAN }

LayoutHeights == { 8, 20 }

LayoutWidths == { 20, 80 }

InitLayout ==
    /\ m = initialModel
    /\ cfg \in LayoutConfigs
    /\ quit = FALSE
    /\ uiPc = "idle"
    /\ pendStart = TRUE
    /\ pendStream = 0
    /\ pendRefresh = 0
    /\ retried = FALSE
    /\ txt = NoCall
    /\ res = RunStreaming(<<>>)
    /\ lineNum = 1
    /\ rd = [r \in Readers |-> [pc |-> "idle", line |-> Line(0, <<>>)]]
    /\ mainPc = "none"
    /\ proc = NoProc
    /\ ctxCancelled = FALSE
    /\ emitted = <<>>
    /\ prev = NoPrev(FALSE)
    /\ viewShared = FALSE

ResizeLayout == \E w \in LayoutWidths, h \in LayoutHeights : WindowSizeMsg(w, h)

TogglePreviewKey == KeyMsg("p")

NextLayout == ResizeLayout \/ TogglePreviewKey

SpecLayout == InitLayout /\ [][NextLayout]_vars

\* The input modes: filter entry, the help overlay and normal mode over the lines
\* a, b, c, with the keys that enter and leave the modes and one movement key
ModeKeys == { "/", "b", "backspace", "enter", "esc", "?", "j" }

NextModes == UiStep(ModeKeys) \/ Resize \/ RunnerStep({"stdout"}, AbcOutput(lineNum))

SpecModes == Init /\ [][NextModes]_vars

(***************************************************************************)
(* The text functions applied to bounded texts                             *)
(***************************************************************************)
\* units a text is made of at most
MaxUnits == 3

\* a narrow and a wide code point, an SGR escape sequence, a tab, a carriage return
Units == { <<"a">>, <<"W">>, <<ESC, "[", "3", "m">>, <<"\t">>, <<"\r">> }

RECURSIVE Flatten(_)
Flatten(ss) == IF ss = <<>> THEN <<>> ELSE Head(ss) \o Flatten(Tail(ss))

Hello == <<"h", "e", "l", "l", "o">>

Texts ==
    { Flatten(us) : us \in UNION { [1..n -> Units] : n \in 0..MaxUnits } } \cup { Hello }

TextWidths == 0..4

Libs == { "lenient", "strict" }

\* a call with the text and the width given, nothing computed yet
Calls(ws, ls) ==
    [pc : {"input"}, lib : ls, text : Texts, width : ws,
     out : {<<>>}, again : {<<>>}, lines : {<<>>}]

CallInit(calls) ==
    /\ m = initialModel
    /\ cfg \in { c \in Configs : c.RefreshInterval = 0 }
    /\ quit = FALSE
    /\ uiPc = "idle"
    /\ pendStart = TRUE
    /\ pendStream = 0
    /\ pendRefresh = 0
    /\ retried = FALSE
    /\ txt \in calls
    /\ res = RunStreaming(<<>>)
    /\ lineNum = 1
    /\ rd = [r \in Readers |-> [pc |-> "idle", line |-> Line(0, <<>>)]]
    /\ mainPc = "none"
    /\ proc = NoProc
    /\ ctxCancelled = FALSE
    /\ emitted = <<>>
    /\ prev = NoPrev(FALSE)
    /\ viewShared = FALSE

TextInit(ws, ls) == CallInit(Calls(ws, ls))

TextStep(pc, new) ==
    /\ txt.pc = pc
    /\ txt' = new
    /\ UNCHANGED <<m, cfg, quit, uiPc, pendStart, pendStream, pendRefresh, retried, runVars, viewShared>>

\* content := truncateToWidth(line.Content, contentWidth)
TruncateCall ==
    TextStep("input", [txt EXCEPT !.pc = "truncated",
                                  !.out = truncateToWidth(txt.lib, txt.text, txt.width)])

\* the result truncated again to the same width
TruncateAgain ==
    TextStep("truncated", [txt EXCEPT !.pc = "retruncated",
                                      !.again = truncateToWidth(txt.lib, txt.out, txt.width)])

\* previewLines = wrapText(previewContent, innerWidth)
WrapCall ==
    TextStep("input", [txt EXCEPT !.pc = "wrapped",
                                  !.lines = wrapText(txt.lib, txt.text, txt.width)])

InitText == TextInit(TextWidths, Libs)

NextText == TruncateCall \/ TruncateAgain \/ WrapCall

SpecText == InitText /\ [][NextText]_vars

\* Content: sanitizeLine(scanner.Text())
SanitizeCall ==
    TextStep("input", [txt EXCEPT !.pc = "sanitized", !.out = sanitizeLine(txt.text)])

SanitizeAgain ==
    TextStep("sanitized", [txt EXCEPT !.pc = "resanitized", !.again = sanitizeLine(txt.out)])

\* the one-shot Run of a child that prints the text on stdout and on stderr
RunCall ==
    \E e \in {NoError, "failed to start command"}, c \in ExitCodes :
        TextStep("input",
                 [txt EXCEPT !.pc = "ran",
                             !.lines = Run(e, <<txt.text>>, <<txt.text>>,
                                           [st |-> "exited", code |-> c]).Result.Lines])

\* the streaming child prints the text as every line
TextOutput(k) == IF k <= MaxEmit THEN {txt.text} ELSE {}

InitSanitize == TextInit({0}, {"none"})

NextSanitize ==
    \/ SanitizeCall \/ SanitizeAgain \/ RunCall
    \/ StartStreamMsg
    \/ RunnerStep(Readers, TextOutput(lineNum))

SpecSanitize == InitSanitize /\ [][NextSanitize]_vars

(***************************************************************************)
(* Properties of the merge buffer (SpecStream)                             *)
(***************************************************************************)
\* the lines the current execution has numbered so far
N == Len(emitted)

\* C1: in every state of the merge buffer the line at index i has Number == i+1
\* (1-based here: res.Lines[i].Number = i)
C1_LinesNumbered ==
    \A i \in 1..Len(res.Lines) : res.Lines[i].Number = i

\* C2: when a run that emitted N lines is done, the buffer holds at index k-1 the
\* line that was given number k, for every k in 1..N
C2_GapFree ==
    res.Done =>
        \A k \in 1..N : k <= Len(res.Lines) /\ res.Lines[k] = Line(k, emitted[k])

\* C3: the merge buffer never holds two entries with the same Number
C3_NoDuplicateNumber ==
    \A i, j \in 1..Len(res.Lines) :
        i # j => res.Lines[i].Number # res.Lines[j].Number

\* the poll tick that saw the current execution done has returned
Observed == m.hasResult /\ ~m.streaming /\ uiPc = "idle"

\* C4: a second run started from a viewport of N lines that emits exactly N lines
\* leaves, after the tick that observes it done, the numbers 1..N with its own content
C4_MergeInPlace ==
    (Observed /\ res.PrevLineCount > 0 /\ N = res.PrevLineCount) =>
        /\ Len(m.lines) = N
        /\ \A k \in 1..N : m.lines[k] = Line(k, emitted[k])

C8_NonZeroExit ==
    /\ (res.Done /\ proc.st = "exited" /\ proc.code # 0) =>
          /\ res.Error = NoError
          /\ res.ExitCode = proc.code
          /\ \A k \in 1..N : \E i \in 1..Len(res.Lines) : res.Lines[i] = Line(k, emitted[k])
    /\ res.Error # NoError => proc.st = "none"

C6_CursorOffsetInRange ==
    uiPc = "idle" =>
        LET n == Len(m.filtered)
            visible == visibleLines(m, cfg)
        IN  IF n > 0
            THEN /\ 0 <= m.cursor /\ m.cursor < n
                 /\ 0 <= m.offset /\ m.offset <= max(0, n - visible)
            ELSE m.cursor = 0

\* the 0-based indices of the viewport's lines that match the filter
MatchSet ==
    { i \in 0..(Len(m.lines) - 1) :
        m.filter = <<>> \/ Contains(ToLower(m.lines[i + 1].Content), ToLower(m.filter)) }

\* C7: after every event filteredIndices is the increasing sequence of the matching
\* indices, the identity sequence when the filter is empty
C7_FilteredExact ==
    uiPc = "idle" =>
        /\ Len(m.filtered) = Cardinality(MatchSet)
        /\ \A j \in 1..Len(m.filtered) : m.filtered[j] \in MatchSet
        /\ \A j \in 1..(Len(m.filtered) - 1) : m.filtered[j] < m.filtered[j + 1]

ReloadKey == \E k \in {"r", "ctrl+r"} : KeyMsg(k)

\* a step that starts a streaming run from the viewport's lines
Started ==
    /\ m'.streaming /\ m'.loading /\ ~m'.userScrolled /\ m'.exitCode = -1
    /\ res' = RunStreaming(m.lines)
    /\ mainPc' = "spawn" /\ ~ctxCancelled'
    /\ pendStream' = pendStream + 1

NormalMode == ~m.showHelp /\ ~m.filterMode

MoveKeys == { "j", "down", "ctrl+n", "k", "up", "ctrl+p", "g", "home", "ctrl+d",
              "ctrl+u", "pgdown", "ctrl+f", "pgup", "ctrl+b" }

EndKeys == { "G", "end" }

\* a step in which startStreaming has run
NewRun == m'.streaming /\ mainPc' = "spawn" /\ res' = RunStreaming(m.lines)

\* a poll tick that finds the buffer's line count changed
TickSeesNewCount ==
    StreamTickSnapshot /\ m.hasResult /\ Len(res.Lines) # m.lastLineCount

\* C11: on a poll tick that sees a changed line count, an unscrolled viewport with
\* visible rows moves cursor to the last filtered index and offset to
\* max(0, len - visibleRows); a scrolled one keeps cursor and offset unless they are
\* clamped into range; userScrolled is set only by a movement key and cleared only
\* by jump-to-end or a new run
C11_AutoFollow ==
    /\ [][TickSeesNewCount =>
            LET n == Len(m'.filtered)
                visible == visibleLines(m', cfg)
                maxOffset == max(0, n - visible)
            IN  /\ (~m.userScrolled /\ visible > 0) =>
                       m'.cursor = max(n - 1, 0) /\ m'.offset = maxOffset
                /\ m.userScrolled =>
                       /\ m'.cursor # m.cursor =>
                              m.cursor >= n /\ m'.cursor = max(n - 1, 0)
                       /\ m'.offset # m.offset =>
                              m.offset > maxOffset /\ m'.offset = maxOffset
                /\ m'.userScrolled = m.userScrolled]_vars
    /\ [][(~m.userScrolled /\ m'.userScrolled) => \E k \in MoveKeys : KeyMsg(k)]_vars
    /\ [][(m.userScrolled /\ ~m'.userScrolled) =>
              (\E k \in EndKeys : KeyMsg(k)) \/ NewRun]_vars

C11_Witness ==
    /\ uiPc = "tickDone" /\ m.userScrolled /\ visibleLines(m, cfg) > 0
    /\ res.PrevLineCount = 0 /\ N = 2 /\ m.lastLineCount = 2
    /\ Len(m.filtered) = 2 /\ m.cursor = 0

\* C12: in normal mode every cursor-movement key sets userScrolled, and the
\* jump-to-end key clears it, also when filteredIndices is empty: handleKeyPress
\* applied with each of these keys to the viewport as it is when a key can arrive
C12_ScrollFlag ==
    (uiPc = "idle" /\ NormalMode) =>
        /\ \A k \in MoveKeys :
              LET r == handleKeyPress(m, cfg, k)
              IN  r.cmd = "none" /\ r.m.userScrolled
        /\ \A k \in EndKeys :
              LET r == handleKeyPress(m, cfg, k)
              IN  r.cmd = "none" /\ ~r.m.userScrolled

C12_Witness ==
    /\ uiPc = "idle" /\ NormalMode /\ m.userScrolled /\ Len(m.filtered) = 0
    /\ m.hasResult /\ ~m.streaming

(***************************************************************************)
(* The scenario a, b, c (SpecLoad)                                         *)
(***************************************************************************)
AbcLines == << Line(1, <<"a">>), Line(2, <<"b">>), Line(3, <<"c">>) >>

\* the filter b is typed into an empty filter entry over the three lines
TypeFilterB ==
    KeyMsg("b") /\ m.filterMode /\ ~m.showHelp /\ m.filter = <<>> /\ m.lines = AbcLines

\* C13 as stated: after the load of a, b, c with no filter the viewport holds the
\* lines numbered 1..3 with cursor == 0, and the filter b gives [1] and cursor == 0
C13_LoadCursorZero ==
    /\ []((Observed /\ res.Error = NoError /\ N = 3 /\ m.lastLineCount = 3
             /\ m.filter = <<>> /\ ~m.filterMode /\ Len(m.filtered) = 3) =>
            m.lines = AbcLines /\ m.cursor = 0)
    /\ [][TypeFilterB => m'.filtered = <<1>> /\ m'.cursor = 0]_vars

\* C13 amended: the poll tick that merges the three lines leaves them numbered 1..3
\* and, with visible rows, the cursor on the last line (2); the cursor stays where
\* it was only without visible rows; the filter b then gives [1] and cursor == 0
C13_LoadFollowsTail ==
    /\ []((Observed /\ res.Error = NoError /\ N = 3 /\ m.lastLineCount = 3) =>
            m.lines = AbcLines)
    /\ [][(TickSeesNewCount /\ Len(res.Lines) = 3 /\ m.filter = <<>> /\ ~m.userScrolled) =>
            /\ m'.lines = AbcLines
            /\ m'.filtered = <<0, 1, 2>>
            /\ m'.cursor = IF visibleLines(m, cfg) > 0 THEN 2 ELSE m.cursor]_vars
    /\ [][TypeFilterB => m'.filtered = <<1>> /\ m'.cursor = 0]_vars

C13_Witness ==
    /\ Observed /\ N = 3 /\ m.lines = AbcLines /\ visibleLines(m, cfg) > 0
    /\ m.filterMode /\ m.filter = <<"b">> /\ m.filtered = <<1>> /\ m.cursor = 0

(***************************************************************************)
(* Resize, preview toggle and filter recomputation                         *)
(***************************************************************************)
\* cursor - visibleRows/2 clamped to [0, max(0, len - visibleRows)]
CenterTarget(mm, c) ==
    LET visible == visibleLines(mm, c)
    IN  min(max(mm.cursor - GoDiv(visible, 2), 0), max(0, Len(mm.filtered) - visible))

\* C14: a resize leaves cursor unchanged and sets offset to the centering target
\* for the new height
C14_ResizeRecomputes ==
    [][Resize => m'.cursor = m.cursor /\ m'.offset = CenterTarget(m', cfg)]_vars

TogglesPreview == KeyMsg("p") /\ NormalMode

\* C15 as stated: p in normal mode (terminal size known) flips the preview, leaves
\* cursor unchanged and sets offset to the centering target for the new preview state
C15_ToggleRecenters ==
    [][(TogglesPreview /\ m.height > 0) =>
          /\ m'.showPreview = ~m.showPreview
          /\ m'.cursor = m.cursor
          /\ m'.offset = CenterTarget(m', cfg)]_vars

\* C15 amended: p in normal mode flips the preview and leaves cursor unchanged;
\* offset becomes the centering target when the new state has visible rows, and
\* is left unchanged when it has none
C15_ToggleRecentersVisible ==
    [][TogglesPreview =>
          /\ m'.showPreview = ~m.showPreview
          /\ m'.cursor = m.cursor
          /\ m'.offset = IF visibleLines(m', cfg) > 0 THEN CenterTarget(m', cfg)
                         ELSE m.offset]_vars

C15_Witness ==
    /\ uiPc = "idle" /\ NormalMode /\ m.showPreview /\ visibleLines(m, cfg) = 1
    /\ Len(m.filtered) = 3 /\ m.cursor = 2 /\ m.offset = 2 /\ ~m.streaming

\* the filters the key handlers can set before they call updateFiltered
FilterEdits ==
    IF uiPc # "idle" \/ m.showHelp THEN {}
    ELSE IF m.filterMode
         THEN {<<>>} \cup { Append(m.filter, r) : r \in FilterRunes }
                \cup (IF m.filter # <<>>
                      THEN { SubSeq(m.filter, 1, Len(m.filter) - 1) } ELSE {})
         ELSE IF m.filter # <<>> THEN {<<>>} ELSE {}

\* the viewports on which updateFiltered is called next: after a filter edit, after
\* the poll tick has merged new lines, after the done tick has trimmed the lines
Recomputes ==
    { [m EXCEPT !.filter = f] : f \in FilterEdits }
      \cup (IF UiReady /\ pendStream > 0 /\ m.hasResult /\ Len(res.Lines) # m.lastLineCount
            THEN { [m EXCEPT !.lines = GetLines(res), !.lastLineCount = Len(res.Lines)] }
            ELSE {})
      \cup (IF uiPc = "tickDone" /\ res.Done /\ res.CurrentLineCount < Len(m.lines)
            THEN { [m EXCEPT !.lines = SubSeq(m.lines, 1, res.CurrentLineCount)] }
            ELSE {})

C17_VisibleRows ==
    LET rows == IF cfg.PreviewSizeIsPercent THEN (m.height * cfg.PreviewSize) \div 100
                ELSE cfg.PreviewSize
        stacked == m.showPreview /\ cfg.PreviewPosition \in {"top", "bottom"}
    IN  /\ visibleLines(m, cfg) = IF stacked THEN m.height - 5 - rows - 1 ELSE m.height - 5
        /\ (m.height = 20 /\ ~m.showPreview) => visibleLines(m, cfg) = 15
        /\ (m.height = 20 /\ m.showPreview /\ cfg.PreviewPosition = "bottom"
              /\ cfg.PreviewSizeIsPercent /\ cfg.PreviewSize = 40) =>
                 visibleLines(m, cfg) = 6

C17_Witness ==
    /\ m.height = 20 /\ m.width = 80 /\ m.showPreview /\ cfg.PreviewPosition = "bottom"
    /\ cfg.PreviewSizeIsPercent /\ cfg.PreviewSize = 40 /\ visibleLines(m, cfg) = 6

(***************************************************************************)
(* Errors of a run                                                         *)
(***************************************************************************)
SpawnFails == StdoutPipeFails \/ StderrPipeFails \/ StartFails

\* C18: a failed pipe or start ends the run done with Error set; the poll tick that
\* then reads done sets the viewport's error message and clears loading and
\* streaming; such a tick is pending while the viewport is streaming; and the event
\* loop goes on: only a key ends it, and keys are still handled
C18_SpawnErrorShown ==
    /\ [][SpawnFails => res'.Done /\ res'.Error # NoError]_vars
    /\ [][(StreamTickDone /\ res.Done /\ res.Error # NoError) =>
              m'.errorMsg = res.Error /\ ~m'.loading /\ ~m'.streaming]_vars
    /\ []((m.streaming /\ ~quit) => pendStream > 0 \/ uiPc = "tickDone")
    /\ [][(~quit /\ quit') => \E k \in Keys : KeyMsg(k)]_vars
    /\ []((m.errorMsg # NoError /\ UiReady) => ENABLED (\E k \in LoadKeys : KeyMsg(k)))

C18_Witness ==
    /\ UiReady /\ res.Done /\ res.Error # NoError /\ m.errorMsg = res.Error
    /\ ~m.loading /\ ~m.streaming /\ m.filterMode /\ m.filter = <<"b">>

\* C19: whatever error a previous run left, the reload key in normal mode starts a
\* new streaming run and clears the error message
C19_ReloadClearsError ==
    [][(ReloadKey /\ NormalMode) =>
          Started /\ m'.errorMsg = NoError /\ res'.Error = NoError /\ ~res'.Done]_vars

C19_Witness ==
    /\ retried /\ m.streaming /\ m.loading /\ m.errorMsg = NoError
    /\ mainPc = "spawn" /\ res.Error = NoError

\* C20: whenever the error message is non-empty (and the terminal size is known), the
\* rendered frame contains the inline error line
C20_ErrorLineShown ==
    (m.errorMsg # NoError /\ m.width > 0 /\ m.height > 0) =>
        \E i \in 1..Len(View(m, cfg)) : View(m, cfg)[i].kind = "error"

(***************************************************************************)
(* The end of a run and the refresh timer                                  *)
(***************************************************************************)
\* the poll tick reads IsDone() true
TickSeesDone == StreamTickDone /\ res.Done

\* C21: a poll tick that observes the run done clears streaming and loading, records
\* the run's exit code, schedules no further poll tick and arms one refresh timer
\* exactly when the refresh interval is > 0; with interval 0 no timer is ever armed
\* and no timer starts a run
C21_DoneTick ==
    /\ [][TickSeesDone =>
            /\ ~m'.streaming /\ ~m'.loading
            /\ m'.exitCode = res.ExitCode
            /\ pendStream' = pendStream
            /\ pendRefresh' = IF cfg.RefreshInterval > 0 THEN pendRefresh + 1
                              ELSE pendRefresh]_vars
    /\ [][cfg.RefreshInterval = 0 =>
            /\ pendRefresh' = 0
            /\ ~(TickMsg /\ pendStream' # pendStream)]_vars

C21_Witness ==
    /\ Observed /\ cfg.RefreshInterval > 0 /\ pendRefresh = 1 /\ pendStream = 0
    /\ ~m.loading /\ m.exitCode = 1 /\ res.ExitCode = 1 /\ N = 2

\* the done tick of a run that emitted fewer lines than it was seeded with
TickSeesShorterRun == TickSeesDone /\ N < res.PrevLineCount

AllIndices(mm) == [i \in 1..Len(mm.lines) |-> i - 1]

FilterEntry == m.filterMode /\ ~m.showHelp

\* C23: in normal mode Esc clears a non-empty filter, recomputing filteredIndices,
\* without quitting, and quits and cancels the execution exactly when the filter is
\* empty; in filter entry Esc leaves the mode and clears the filter, Enter leaves
\* the mode and keeps the filter
C23_EscEnter ==
    /\ [][(KeyMsg("esc") /\ NormalMode) =>
            IF m.filter # <<>>
            THEN /\ m'.filter = <<>> /\ m'.filtered = AllIndices(m)
                 /\ ~quit' /\ ~ctxCancelled' /\ res' = res
            ELSE quit' /\ ctxCancelled']_vars
    /\ [][(KeyMsg("esc") /\ FilterEntry) =>
            /\ ~m'.filterMode /\ m'.filter = <<>> /\ m'.filtered = AllIndices(m)
            /\ ~quit']_vars
    /\ [][(KeyMsg("enter") /\ FilterEntry) =>
            /\ ~m'.filterMode /\ m'.filter = m.filter /\ m'.filtered = m.filtered
            /\ ~quit']_vars

C23_Witness ==
    /\ quit /\ ctxCancelled /\ NormalMode /\ m.filter = <<>> /\ m.streaming
    /\ res.PrevLineCount = 3 /\ m.filtered = <<0, 1, 2>> /\ proc.st = "running"

\* C24: while the help overlay is shown, any key closes it
C24_AnyKeyClosesHelp ==
    (UiReady /\ m.showHelp) => \A k \in Keys : ~handleKeyPress(m, cfg, k).m.showHelp

(***************************************************************************)
(* Text layout (SpecText) and sanitizing (SpecSanitize)                    *)
(***************************************************************************)
\* C25: truncating the result of truncateToWidth(text, w) again to w changes nothing,
\* the first result being at most w columns wide; "hello" at width 3 gives "he..."
C25_TruncateIdempotent ==
    /\ txt.pc \in {"truncated", "retruncated"} =>
          /\ Width(txt.lib, txt.out) <= txt.width
          /\ (txt.text = Hello /\ txt.width = 3) => txt.out = <<"h", "e", ellipsis>>
    /\ txt.pc = "retruncated" => txt.again = txt.out

C25_Witness ==
    /\ txt.pc = "retruncated" /\ txt.text = Hello /\ txt.width = 3
    /\ txt.out = <<"h", "e", ellipsis>> /\ txt.again = txt.out

\* the runes of the text that truncateToWidth kept
Kept == IF txt.out = txt.text THEN Len(txt.text) ELSE max(Len(txt.out) - 1, 0)

\* a prefix of p runes ends inside an escape sequence of s
InsideEscape(s, p) ==
    \E i \in 1..p : s[i] = ESC /\ \A j \in (i + 1)..p : s[j] \notin Letters

\* the columns the loop of truncateToWidth counts for a text
RECURSIVE Counted(_, _)
Counted(lib, s) == IF s = <<>> THEN 0 ELSE Width(lib, <<Head(s)>>) + Counted(lib, Tail(s))

\* C26: a text that truncateToWidth shortens is never cut inside an escape sequence
\* (each one is kept whole or dropped whole), and the bytes of the escape sequences
\* kept are counted as 0 columns
C26_NoSplitEscape ==
    (txt.pc = "truncated" /\ txt.out # txt.text) =>
        /\ ~InsideEscape(txt.text, Kept)
        /\ Counted(txt.lib, SubSeq(txt.text, 1, Kept))
             = Width(txt.lib, SubSeq(txt.text, 1, Kept))

\* C27: for width >= 1 the lines of wrapText(text, width), concatenated in order, are
\* the text, and the empty text gives exactly one empty line
C27_WrapRoundTrip ==
    (txt.pc = "wrapped" /\ txt.width >= 1) =>
        /\ Flatten(txt.lines) = txt.text
        /\ txt.text = <<>> => txt.lines = << <<>> >>

C27_Witness ==
    /\ txt.pc = "wrapped" /\ txt.width = 2 /\ txt.text = <<"a", "W", "a">>
    /\ txt.lines = << <<"a">>, <<"W">>, <<"a">> >>

\* what one code point of a raw line becomes
Expand(ch) ==
    CASE ch = "\r" -> <<>>
      [] ch = "\t" -> <<" ", " ", " ", " ", " ", " ", " ", " ">>
      [] OTHER -> <<ch>>

\* the raw line with every code point expanded, in order
Expected(s) == Flatten([i \in 1..Len(s) |-> Expand(s[i])])

\* C28: every line Run and RunStreaming store is the sanitized raw line: no carriage
\* return, no tab, each tab replaced by 8 spaces, every other code point (escape
\* sequences included) kept in order; sanitizing it again changes nothing
C28_Sanitized ==
    /\ txt.pc \in {"sanitized", "resanitized"} =>
          /\ txt.out = Expected(txt.text)
          /\ \A i \in 1..Len(txt.out) : txt.out[i] \notin {"\r", "\t"}
    /\ txt.pc = "resanitized" => txt.again = txt.out
    /\ txt.pc = "ran" =>
          \A i \in 1..Len(txt.lines) : txt.lines[i] = Line(i, Expected(txt.text))
    /\ \A i \in 1..Len(res.Lines) : res.Lines[i].Content = Expected(txt.text)
    /\ \A r \in Readers : rd[r].pc = "write" => rd[r].line.Content = Expected(txt.text)

C28_Witness ==
    /\ txt.pc = "resanitized" /\ txt.text = <<"\t", ESC, "[", "3", "m", "\r">>
    /\ res.Done /\ Len(res.Lines) = 2 /\ res.Lines[2].Content = txt.out
    /\ Len(txt.out) = 12

(***************************************************************************)
(* The end of a run seen from the viewport and from the buffer             *)
(***************************************************************************)
\* C29: when the poll tick that observes done a run started from an empty viewport
\* returns, the viewport holds every line the run wrote to the buffer, also a
\* line written between the tick's GetLines() and its IsDone()
C29_DoneTickSeesAllLines ==
    [][(TickSeesDone /\ res.PrevLineCount = 0) =>
          \A k \in 1..res.CurrentLineCount :
              k <= Len(m'.lines) /\ m'.lines[k] = res.Lines[k]]_vars

\* a reader or the child of the current execution is still at work
AtWork == proc.st = "running" \/ \E r \in Readers : rd[r].pc \in {"scan", "write"}

\* C30: Done becomes true only when both readers have finished and the child has been
\* waited on (or was never started), and from then on the lines, CurrentLineCount,
\* ExitCode and Error of that result never change: the result is only ever replaced
\* by the fresh one of a new run
C30_DoneIsFinal ==
    /\ [][(~res.Done /\ res'.Done) => ~AtWork /\ ~AtWork']_vars
    /\ [][res.Done => res' = res \/ res' = RunStreaming(m.lines)]_vars

C30_Witness ==
    /\ res.Done /\ proc.st = "exited" /\ N = 2 /\ Len(res.Lines) = 2
    /\ \A r \in Readers : rd[r].pc = "done"
    /\ res.PrevLineCount = 2 /\ Observed /\ pendRefresh > 0

(***************************************************************************)
(* A restarted run: the superseded execution is followed to its end.  The  *)
(* child prints on stdout; the refresh timer is off or on.                 *)
(***************************************************************************)
InitSupersede == InitProgram(Configs, TRUE)

NextSupersede ==
    \/ UiStep(StreamKeys)
    \/ RunnerStep({"stdout"}, Output(lineNum))
    \/ PrevStep({"stdout"}, Output(prev.lineNum))

SpecSupersede == InitSupersede /\ [][NextSupersede]_vars

(***************************************************************************)
(* Timers and executions                                                   *)
(***************************************************************************)
\* C31: at any time at most one poll tick and at most one refresh timer are pending
C31_OneTimerEach == pendStream <= 1 /\ pendRefresh <= 1

\* an execution that has been started and has not yet reported done
Running(pc) == pc \in {"spawn", "reading"}

\* C32: at most one execution has a context that is not cancelled: the context of the
\* superseded execution is cancelled from the step that starts the new one, and
\* quitting cancels the current one
C32_OneLiveContext ==
    /\ prev.mainPc # "none" => prev.ctxCancelled
    /\ quit => ctxCancelled

\* the superseded child is still running, cancelled, beside the new execution
C32_Witness ==
    /\ prev.mainPc = "reading" /\ prev.proc.st = "running" /\ prev.ctxCancelled
    /\ mainPc = "reading" /\ proc.st = "running" /\ ~ctxCancelled

\* C33: once a run is superseded nothing of it reaches the viewport: a poll tick takes
\* the lines, the exit code, the error and the end of the new result only, whatever the
\* superseded execution has written to its own result since
C33_OldRunUnseen ==
    [][ /\ StreamTickSnapshot => m'.lines \in {m.lines, res.Lines}
        /\ StreamTickDone =>
              /\ m'.exitCode \in {m.exitCode, res.ExitCode}
              /\ m'.errorMsg \in {m.errorMsg, res.Error}
              /\ m'.streaming = (m.streaming /\ ~res.Done)
              /\ \E n \in 0..Len(m.lines) : m'.lines = SubSeq(m.lines, 1, n) ]_vars

\* the superseded run wrote two lines and was killed after the restart; the viewport
\* shows the one line and the exit code of the new run
C33_Witness ==
    /\ prev.res.Done /\ prev.res.ExitCode = -1 /\ Len(prev.res.Lines) = 2
    /\ res.Done /\ res.ExitCode = 0
    /\ ~m.streaming /\ m.exitCode = 0 /\ Len(m.lines) = 1 /\ m.errorMsg = NoError

InitOnce == InitProgram({ c \in Configs : c.RefreshInterval = 0 }, TRUE)

\* r is pressed while no execution has been superseded yet
RestartOnce == prev.mainPc = "none" /\ mainPc # "none" /\ KeyMsg("r")

Spawn == StdoutPipeFails \/ StderrPipeFails \/ StartFails \/ StartSucceeds

NextOnce ==
    \/ StartStreamMsg
    \/ RestartOnce
    \/ KeyMsg("q")
    \/ StreamTickSnapshot
    \/ StreamTickDone
    \/ RunnerStep({"stdout"}, Output(lineNum))
    \/ PrevStep({"stdout"}, Output(prev.lineNum))

SpecOnce == InitOnce /\ [][NextOnce]_vars

FairOnce ==
    /\ SpecOnce
    /\ WF_vars(Spawn)
    /\ \A r \in Readers : WF_vars(ReaderWrite(r)) /\ WF_vars(ReaderEOF(r))
    /\ WF_vars(ProcKill)
    /\ WF_vars(Finish)
    /\ WF_vars(PrevStartFails)
    /\ \A r \in Readers : WF_vars(PrevReaderWrite(r)) /\ WF_vars(PrevReaderEOF(r))
    /\ WF_vars(PrevProcKill)
    /\ WF_vars(PrevFinish)
    /\ WF_vars(StreamTickSnapshot)
    /\ WF_vars(StreamTickDone)

\* the child of the execution is gone, or its context is cancelled
Ending(pc, p, cancelled) == Running(pc) /\ (p.st \in {"exited", "killed"} \/ cancelled)

Restarted == prev.mainPc # "none"

PipeCap == 1

MaxWrites == 4

\* the commands: each writes up to MaxWrites lines, each on stdout or on stderr
Commands == UNION { [1..n -> Readers] : n \in 0..MaxWrites }

\* Run after cmd.Start(): it is about to scan stdout
OneShots ==
    [pc : {"stdout"}, todo : Commands, pipe : {[r \in Readers |-> 0]},
     child : {"running"}, lines : {<<>>}]

InitRun == CallInit(OneShots)

OneShotStep(new) ==
    /\ txt' = new
    /\ UNCHANGED <<m, cfg, quit, uiPc, pendStart, pendStream, pendRefresh, retried, runVars,
                   viewShared>>

\* the child writes its next line, when the pipe has room for it
ChildWrite ==
    /\ txt.child = "running"
    /\ txt.todo # <<>>
    /\ txt.pipe[Head(txt.todo)] < PipeCap
    /\ OneShotStep([txt EXCEPT !.todo = Tail(txt.todo),
                               !.pipe[Head(txt.todo)] = txt.pipe[Head(txt.todo)] + 1])

\* the child has written everything: it exits, which closes its ends of the pipes
ChildExit ==
    /\ txt.child = "running"
    /\ txt.todo = <<>>
    /\ OneShotStep([txt EXCEPT !.child = "exited"])

\* "for scanner.Scan()" on stdout, then "for stderrScanner.Scan()" on stderr
RunScan ==
    /\ txt.pc \in Readers
    /\ txt.pipe[txt.pc] > 0
    /\ OneShotStep([txt EXCEPT !.pipe[txt.pc] = txt.pipe[txt.pc] - 1,
                               !.lines = Append(txt.lines, txt.pc)])

\* Scan() returns false: the pipe is empty and the child has closed it
RunEOF ==
    /\ txt.pc \in Readers
    /\ txt.pipe[txt.pc] = 0
    /\ txt.child = "exited"
    /\ OneShotStep([txt EXCEPT !.pc = IF txt.pc = "stdout" THEN "stderr" ELSE "wait"])

\* cmd.Wait() and the return
RunWait ==
    /\ txt.pc = "wait"
    /\ txt.child = "exited"
    /\ OneShotStep([txt EXCEPT !.pc = "returned"])

NextRun == ChildWrite \/ ChildExit \/ RunScan \/ RunEOF \/ RunWait

SpecRun == InitRun /\ [][NextRun]_vars

\* C36: Run always returns: until it has returned, Run or its child can take a step
C36_RunNeverBlocks == txt.pc # "returned" => ENABLED NextRun

(***************************************************************************)
(* The selected row and the window                                         *)
(***************************************************************************)
\* the selected row is one of the rows the list shows
InWindow(mm, c) ==
    (Len(mm.filtered) > 0 /\ visibleLines(mm, c) > 0) =>
        mm.offset <= mm.cursor /\ mm.cursor < mm.offset + visibleLines(mm, c)

\* C37: after every event, with filteredIndices non-empty and visibleRows > 0, the
\* selected row is inside the visible window: offset <= cursor < offset + visibleRows
C37_SelectionVisible == uiPc = "idle" => InWindow(m, cfg)

\* C38: while the help overlay is shown a key changes nothing but the overlay flag:
\* the handler returns no command (no run is started, the program does not quit, the
\* execution is left alone) and every other field of the viewport is as before
C38_HelpSwallowsKeys ==
    (UiReady /\ m.showHelp) =>
        \A k \in Keys :
            LET r == handleKeyPress(m, cfg, k)
            IN  /\ r.cmd = "none"
                /\ r.m = [m EXCEPT !.showHelp = r.m.showHelp]

\* the help overlay is open over a streaming run with lines and a filter
C38_Witness ==
    /\ UiReady /\ m.showHelp /\ m.streaming /\ proc.st = "running"
    /\ Len(m.lines) = 2 /\ m.filter # <<>> /\ m.filtered # <<>>

(***************************************************************************)
(* The frame.  The preview at each side in two sizes, terminals one, two   *)
(* and twenty columns wide, and a child that prints a narrow and a wide    *)
(* line; p toggles the preview and j moves the selection.                  *)
(***************************************************************************)
FrameConfigs ==
    { [RefreshInterval |-> 0, PreviewPosition |-> pos, PreviewSize |-> sz.size,
       PreviewSizeIsPercent |-> sz.pct] :
         pos \in {"top", "bottom", "left", "right"},
         sz \in { [size |-> 1, pct |-> FALSE], [size |-> 40, pct |-> TRUE] } }

FrameWidths == { 1, 2, 20 }

FrameHeights == { 8 }

FrameText == << <<"a">>, <<"W">> >>

FrameOutput(k) == IF k <= Len(FrameText) THEN {FrameText[k]} ELSE {}

FrameKeys == { "p", "j" }

InitFrame == InitProgram(FrameConfigs, FALSE)

ResizeFrame == \E w \in FrameWidths, h \in FrameHeights : WindowSizeMsg(w, h)

NextFrame ==
    \/ StartStreamMsg
    \/ \E k \in FrameKeys : KeyMsg(k)
    \/ StreamTickSnapshot
    \/ StreamTickDone
    \/ ResizeFrame
    \/ RunnerStep({"stdout"}, FrameOutput(lineNum))

SpecFrame == InitFrame /\ [][NextFrame]_vars

\* C39: with width > 0 and visibleRows >= 0 renderMainView returns a frame of exactly
\* terminalHeight rows, for every preview position, with the preview shown or hidden
\* and with or without an error message
C39_FrameHeight ==
    (uiPc = "idle" /\ m.width > 0 /\ m.height > 0 /\ visibleLines(m, cfg) >= 0) =>
        /\ ~renderPanics(m, cfg)
        /\ Len(renderMainView(m, cfg)) = m.height

(***************************************************************************)
(* ui.go: splitAtVisualWidth, skipVisualWidth and overlayBox.  A view is   *)
(* the sequence of its rows, a row a text.                                 *)
(***************************************************************************)
isAnsiTerminator(r) == r \in Letters

ansiReset == <<ESC, "[", "0", "m">>

\* the index of the terminator of the escape sequence that starts at s[i], or the
\* last index of s when there is none
RECURSIVE EscapeEnd(_, _)
EscapeEnd(s, j) ==
    IF j >= Len(s) THEN Len(s)
    ELSE IF isAnsiTerminator(s[j]) THEN j
    ELSE EscapeEnd(s, j + 1)

\* the first loop of splitAtVisualWidth: the runes taken for the left part, their
\* visual width, and the index of the first rune not taken
RECURSIVE SplitLoop(_, _, _, _, _, _)
SplitLoop(lib, s, i, left, visualWidth, targetWidth) ==
    IF i > Len(s) \/ visualWidth >= targetWidth
    THEN [left |-> left, visualWidth |-> visualWidth, i |-> i]
    ELSE IF s[i] = ESC
    THEN LET e == IF i = Len(s) THEN i ELSE EscapeEnd(s, i + 1)
         IN  SplitLoop(lib, s, e + 1, left \o SubSeq(s, i, e), visualWidth, targetWidth)
    ELSE LET runeWidth == Width(lib, <<s[i]>>)
         IN  IF visualWidth + runeWidth <= targetWidth
             THEN SplitLoop(lib, s, i + 1, Append(left, s[i]), visualWidth + runeWidth,
                            targetWidth)
             ELSE [left |-> left, visualWidth |-> visualWidth, i |-> i]

splitAtVisualWidth(lib, s, targetWidth) ==
    LET r == SplitLoop(lib, s, 1, <<>>, 0, targetWidth)
    IN  [left |-> r.left \o [k \in 1..max(targetWidth - r.visualWidth, 0) |-> " "],
         right |-> SubSeq(s, r.i, Len(s))]

\* the first loop of skipVisualWidth: the escape sequences met while skipping, and the
\* index of the first rune not skipped
RECURSIVE SkipLoop(_, _, _, _, _, _)
SkipLoop(lib, s, i, ansiState, visualWidth, skipWidth) ==
    IF i > Len(s) \/ visualWidth >= skipWidth
    THEN [ansiState |-> ansiState, i |-> i]
    ELSE IF s[i] = ESC
    THEN LET e == IF i = Len(s) THEN i ELSE EscapeEnd(s, i + 1)
         IN  SkipLoop(lib, s, e + 1, ansiState \o SubSeq(s, i, e), visualWidth, skipWidth)
    ELSE SkipLoop(lib, s, i + 1, ansiState, visualWidth + Width(lib, <<s[i]>>), skipWidth)

skipVisualWidth(lib, s, skipWidth) ==
    LET r == SkipLoop(lib, s, 1, <<>>, 0, skipWidth)
    IN  r.ansiState \o SubSeq(s, r.i, Len(s))

\* "(screen - box) / 2", not below 0
Centered(screen, box) == max(GoDiv(screen - box, 2), 0)

\* the base rows, with empty rows added up to screenHeight
BaseLines(base, screenHeight) ==
    [y \in 1..max(Len(base), screenHeight) |-> IF y <= Len(base) THEN base[y] ELSE <<>>]

overlayBox(lib, base, boxLines, boxWidth, boxHeight, screenWidth, screenHeight) ==
    LET baseLines == BaseLines(base, screenHeight)
        startX == Centered(screenWidth, boxWidth)
        startY == Centered(screenHeight, boxHeight)
        endX == startX + boxWidth
    IN  [y \in 1..Len(baseLines) |->
            LET i == y - 1 - startY
                baseLine == baseLines[y]
            IN  IF i >= 0 /\ i < Len(boxLines)
                THEN splitAtVisualWidth(lib, baseLine, startX).left \o ansiReset
                       \o boxLines[i + 1]
                       \o (IF endX < Width(lib, baseLine)
                           THEN skipVisualWidth(lib, baseLine, endX) ELSE <<>>)
                ELSE baseLine]

(***************************************************************************)
(* The overlay on a view of two rows: a line as truncateToWidth has left   *)
(* it and the line as it was.  The box is three styled rows of two columns.*)
(***************************************************************************)
ScreenWidths == 1..7

ScreenHeights == 1..6

BoxLine == <<ESC, "[", "3", "m", "o", "o">>

Box == <<BoxLine, BoxLine, BoxLine>>

OverlayCalls ==
    [pc : {"input"}, lib : Libs, text : Texts, width : 1..3, out : {<<>>}, again : {<<>>},
     lines : {<<>>}, screenWidth : ScreenWidths, screenHeight : ScreenHeights]

InitOverlay == CallInit(OverlayCalls)

\* mainView := m.renderMainView()
MainView == <<txt.out, txt.text>>

\* return overlayBox(mainView, box, boxWidth, boxHeight, m.width, m.height)
OverlayCall ==
    TextStep("truncated",
             [txt EXCEPT !.pc = "overlaid",
                         !.lines = overlayBox(txt.lib, MainView, Box, Width(txt.lib, BoxLine),
                                              Len(Box), txt.screenWidth, txt.screenHeight)])

NextOverlay == TruncateCall \/ OverlayCall

SpecOverlay == InitOverlay /\ [][NextOverlay]_vars

\* the rows the box covers, counted from 1
BoxRows ==
    (Centered(txt.screenHeight, Len(Box)) + 1)
        .. (Centered(txt.screenHeight, Len(Box)) + Len(Box))

\* row y of the result is a part startX columns wide, then the style reset, then the
\* row of the box
Spliced(y) ==
    LET row == txt.lines[y]
        boxLine == Box[y - Centered(txt.screenHeight, Len(Box))]
    IN  \E k \in 0..(Len(row) - Len(ansiReset) - Len(boxLine)) :
            /\ Width(txt.lib, SubSeq(row, 1, k))
                 = Centered(txt.screenWidth, Width(txt.lib, BoxLine))
            /\ SubSeq(row, k + 1, k + Len(ansiReset)) = ansiReset
            /\ SubSeq(row, k + Len(ansiReset) + 1, k + Len(ansiReset) + Len(boxLine))
                 = boxLine

\* C40: overlayBox changes only the rows startY .. startY+boxHeight-1, with startX and
\* startY (screen - box)/2 and not below 0; every other row of the base is returned
\* unchanged, and on a changed row the part left of the box is exactly startX columns
\* wide and is followed by a style reset and then the row of the box
C40_OverlayRows ==
    txt.pc = "overlaid" =>
        \A y \in 1..Len(txt.lines) :
            IF y \in BoxRows THEN Spliced(y)
            ELSE txt.lines[y] = BaseLines(MainView, txt.screenHeight)[y]

====
